---- MODULE Spec2Model ----
(***************************************************************************)
(* Model of the walden ingestion scripts ingests/faostat.py and            *)
(* ingests/wb_income_groups.py: the freshness check against the index,     *)
(* the per-dataset loop of main, the commit of a snapshot and the          *)
(* auxiliary "additional metadata" refresh.                                *)
(*                                                                         *)
(* Representation.  A calendar date is a day number.  The text of a date   *)
(* (str(date), the "%Y-%m-%d" form) is the pair <<"iso", day>>; any other  *)
(* text is <<"text", k>>, which strptime refuses.  A dataset code is a     *)
(* sequence of characters, so that str.lower() is computed letter by       *)
(* letter.  The allow-list and the category list are cut down to a few     *)
(* entries of the lists in the source.                                     *)
(***************************************************************************)
EXTENDS Integers, Sequences, FiniteSets, TLC

\* ---------------------------------------------------------------- bounds
MaxDay == 2
MaxRuns == 2
MaxCatalog == 2
MaxIndexLen == 2

\* ------------------------------------------------------------- constants
NAMESPACE == "faostat"
WB_NAMESPACE == "wb"
SOURCE_DATA_URL == "CLASS.xlsx"
NoUrl == "none"
NoVersion == <<"none", 0>>

\* Codes of datasets to download (a two-entry cut of the list in the source).
INCLUDED_DATASETS_CODES == {<<"q", "c">>, <<"a", "e">>}
CATEGORIES == {"area"}

\* str.lower() on one character, and on a string.
LowerChar(c) ==
    CASE c = "Q" -> "q"
      [] c = "C" -> "c"
      [] c = "A" -> "a"
      [] c = "E" -> "e"
      [] c = "X" -> "x"
      [] OTHER -> c

Lower(s) == [k \in DOMAIN s |-> LowerChar(s[k])]

\* str(date) and datetime.strptime(text, "%Y-%m-%d").date()
StrDate(d) == <<"iso", d>>

IsIsoDate(s) == s[1] = "iso"

Strptime(s) == s[2]

\* The raw descriptors the FAO catalog may list: DatasetCode, FileLocation.
Descriptors ==
    { [DatasetCode |-> <<"Q", "C">>, FileLocation |-> "u1"],
      [DatasetCode |-> <<"q", "c">>, FileLocation |-> "u2"],
      [DatasetCode |-> <<"X", "X">>, FileLocation |-> "u3"] }

\* The files whose server state the runs can observe.
Urls == {"u1", "u2"}

SeqsUpTo(S, n) == UNION {[1..k -> S] : k \in 0..n}

Catalogs == SeqsUpTo(Descriptors, MaxCatalog)

\* ------------------------------------------------------------- FAODataset
\* (with a faulty variant that keeps the code's letter case)
short_name_raw(description) == <<NAMESPACE, "_">> \o description.DatasetCode

short_name(description) == <<NAMESPACE, "_">> \o Lower(description.DatasetCode)

source_data_url(description) == description.FileLocation

\* FAODataset.metadata: the fields the index and the freshness check read.
metadata(description, ver) ==
    [ namespace |-> NAMESPACE,
      short_name |-> short_name(description),
      date_accessed |-> ver,
      version |-> ver,
      source_data_url |-> source_data_url(description) ]

\* FAOAdditionalMetadata.create_metadata (no source_data_url field).
create_metadata(ver) ==
    [ namespace |-> NAMESPACE,
      short_name |-> <<NAMESPACE, "_", "metadata">>,
      date_accessed |-> ver,
      version |-> ver,
      source_data_url |-> NoUrl ]

\* wb_income_groups.create_metadata_dict (no version field).
create_metadata_dict(now) ==
    [ namespace |-> WB_NAMESPACE,
      short_name |-> <<WB_NAMESPACE, "_", "income">>,
      date_accessed |-> StrDate(now),
      version |-> NoVersion,
      source_data_url |-> SOURCE_DATA_URL ]

\* ---------------------------------------------------------------- index
\* The index is the set of its records (one file each).
\* iter_docs(INDEX_DIR / namespace): the records of one namespace, one after
\* the other, in the order the directory walk yields them.
RECURSIVE Enumerate(_)
Enumerate(S) ==
    IF S = {} THEN <<>>
    ELSE LET r == CHOOSE x \in S : TRUE
         IN <<r>> \o Enumerate(S \ {r})

iter_docs(idx, ns) == Enumerate({r \in idx : r.namespace = ns})

Triple(r) == <<r.namespace, r.short_name, r.version>>

Triples(idx) == {Triple(r) : r \in idx}

\* ------------------------------------------------------- Freshness check
\* The loop of is_dataset_already_up_to_date over docs[k..]: "raise" when
\* strptime refuses a date_accessed, else the flag after the last record.
RECURSIVE Scan(_, _, _, _, _)
Scan(docs, k, url, mod, flag) ==
    IF k > Len(docs) THEN (IF flag THEN "true" ELSE "false")
    ELSE IF ~IsIsoDate(docs[k].date_accessed) THEN "raise"
    ELSE Scan(docs, k + 1, url, mod,
              flag \/ (docs[k].source_data_url = url
                       /\ Strptime(docs[k].date_accessed) > mod))

\* A faulty variant: the comparison of the two dates is turned around.
RECURSIVE ScanReversed(_, _, _, _, _)
ScanReversed(docs, k, url, mod, flag) ==
    IF k > Len(docs) THEN (IF flag THEN "true" ELSE "false")
    ELSE IF ~IsIsoDate(docs[k].date_accessed) THEN "raise"
    ELSE ScanReversed(docs, k + 1, url, mod,
                      flag \/ (docs[k].source_data_url = url
                               /\ Strptime(docs[k].date_accessed) < mod))

up_to_date_reversed(docs, url, mod) == ScanReversed(docs, 1, url, mod, FALSE)

\* docs is what iter_docs(index_dir) yields.
is_dataset_already_up_to_date(docs, url, mod) ==
    Scan(docs, 1, url, mod, FALSE)

\* --------------------------------------------------------- add_to_catalog
\* owid.walden.add_to_catalog(metadata, filename, upload=True) as the
\* committer: a triple already in the index is refused, a failed upload
\* leaves the index alone, else the payload is stored and the record added.
\* Result: the index, the storage and the error raised ("" for none).
\* Faulty variants: the record is written before the upload is known to
\* have worked; an existing triple is overwritten; a second commit of a
\* triple is dropped without an error.
add_to_catalog_record_first(idx, sto, rec, payload, uploadOk) ==
    IF Triple(rec) \in Triples(idx)
    THEN [index |-> idx, storage |-> sto, error |-> "DuplicateVersionError"]
    ELSE IF ~uploadOk
    THEN [index |-> idx \cup {rec}, storage |-> sto,
          error |-> "TransferError:upload"]
    ELSE [index |-> idx \cup {rec},
          storage |-> sto \cup {<<Triple(rec), payload>>},
          error |-> ""]

add_to_catalog_overwrite(idx, sto, rec, payload, uploadOk) ==
    IF ~uploadOk
    THEN [index |-> idx, storage |-> sto, error |-> "TransferError:upload"]
    ELSE [index |-> {r \in idx : Triple(r) # Triple(rec)} \cup {rec},
          storage |-> {p \in sto : p[1] # Triple(rec)}
                        \cup {<<Triple(rec), payload>>},
          error |-> ""]

add_to_catalog_silent(idx, sto, rec, payload, uploadOk) ==
    IF Triple(rec) \in Triples(idx)
    THEN [index |-> idx, storage |-> sto, error |-> ""]
    ELSE IF ~uploadOk
    THEN [index |-> idx, storage |-> sto, error |-> "TransferError:upload"]
    ELSE [index |-> idx \cup {rec},
          storage |-> sto \cup {<<Triple(rec), payload>>},
          error |-> ""]

add_to_catalog(idx, sto, rec, payload, uploadOk) ==
    IF Triple(rec) \in Triples(idx)
    THEN [index |-> idx, storage |-> sto, error |-> "DuplicateVersionError"]
    ELSE IF ~uploadOk
    THEN [index |-> idx, storage |-> sto, error |-> "TransferError:upload"]
    ELSE [index |-> idx \cup {rec},
          storage |-> sto \cup {<<Triple(rec), payload>>},
          error |-> ""]

\* ------------------------------------------------------------------ state
VARIABLES
    today,          \* the calendar day (dt.date.today())
    lastModified,   \* per source URL: the day the server last changed it
    index,          \* the walden index: the records written so far
    storage,        \* the bucket: pairs <<triple, payload>>
    runs,           \* runs started so far
    pipeline,       \* "none", "faostat" or "wb": the script running
    pc,             \* where the running script stands
    VERSION,        \* str(dt.date.today()) taken when the script starts
    faostat_catalog,\* the listing load_faostat_catalog returned
    pos,            \* position of the for loop of main in the listing
    header,         \* _dataset_server_metadata of the current FAODataset
    any_dataset_was_updated,
    scratch,        \* TRUE while a NamedTemporaryFile is open
    scratch_content,\* what the scratch file holds
    wb_metadata,    \* metadata of wb main: description carries the sentence?
    error,          \* the exception that ended the run ("" for none)
    probed,         \* positions of the listing whose header was requested
    checked,        \* positions for which the freshness check was called
    proceeded,      \* positions for which it answered "not up to date"
    committed,      \* what this run wrote to the index
    aux_calls,      \* API requests of the auxiliary refresh in this run
    o_index, o_url, o_mod, o_result, o_pc   \* the freshness check on its own

runVars == <<pipeline, pc, VERSION, faostat_catalog, pos, header,
             any_dataset_was_updated, scratch, scratch_content, wb_metadata,
             error, probed, checked, proceeded, committed, aux_calls>>

oracleVars == <<o_index, o_url, o_mod, o_result, o_pc>>

worldVars == <<today, lastModified, index, storage, runs>>

vars == <<worldVars, runVars, oracleVars>>

NoHeader == <<"none", 0>>

NoPayload == [kind |-> "none", url |-> NoUrl, doc |-> {}]

NoWbMetadata == [rec |-> create_metadata_dict(0), sentence |-> FALSE]

RunInit ==
    /\ pipeline = "none"
    /\ pc = "idle"
    /\ VERSION = NoVersion
    /\ faostat_catalog = <<>>
    /\ pos = 1
    /\ header = NoHeader
    /\ any_dataset_was_updated = FALSE
    /\ scratch = FALSE
    /\ scratch_content = NoPayload
    /\ wb_metadata = NoWbMetadata
    /\ error = ""
    /\ probed = {}
    /\ checked = {}
    /\ proceeded = {}
    /\ committed = {}
    /\ aux_calls = 0

OracleIdle ==
    /\ o_index = <<>>
    /\ o_url = NoUrl
    /\ o_mod = 0
    /\ o_result = "none"
    /\ o_pc = "off"

Init ==
    /\ today = 1
    /\ lastModified = [u \in Urls |-> 0]
    /\ index = {}
    /\ storage = {}
    /\ runs = 0
    /\ RunInit
    /\ OracleIdle

\* ------------------------------------------------------------- the world
\* Midnight passes (between runs).
NextDay ==
    /\ pc = "idle"
    /\ today < MaxDay
    /\ today' = today + 1
    /\ UNCHANGED <<lastModified, index, storage, runs, runVars, oracleVars>>

\* The source server replaces the file behind url (between runs).
UpstreamUpdate(url) ==
    /\ pc = "idle"
    /\ lastModified[url] < today
    /\ lastModified' = [lastModified EXCEPT ![url] = today]
    /\ UNCHANGED <<today, index, storage, runs,
                   runVars, oracleVars>>

\* ---------------------------------------------------------- faostat.main
\* What the payloads are: the bytes behind a URL, or the combined additional
\* metadata.
FilePayload(url) == [kind |-> "file", url |-> url, doc |-> {}]

JsonPayload(doc) == [kind |-> "json", url |-> NoUrl, doc |-> doc]

\* An uncaught exception: the with block (if any) discards the scratch file
\* and the interpreter ends the script.
RaiseKeepingScratch(e) ==
    /\ pc' = "crashed"
    /\ error' = e
    /\ UNCHANGED <<scratch, scratch_content>>

Raise(e) ==
    /\ pc' = "crashed"
    /\ error' = e
    /\ scratch' = FALSE
    /\ scratch_content' = NoPayload

\* main starts: VERSION is set on import, the flag is cleared and the
\* catalog is fetched (a failure of that request ends the run).
StartFaostat ==
    /\ pc = "idle"
    /\ runs < MaxRuns
    /\ runs' = runs + 1
    /\ pipeline' = "faostat"
    /\ VERSION' = StrDate(today)
    /\ any_dataset_was_updated' = FALSE
    /\ pos' = 1
    /\ \/ /\ \E listing \in Catalogs : faostat_catalog' = listing
          /\ pc' = "loop"
          /\ UNCHANGED <<error, scratch, scratch_content>>
       \/ /\ faostat_catalog' = <<>>
          /\ Raise("ConnectionError")
    /\ UNCHANGED <<today, lastModified, index, storage, header, wb_metadata, probed, checked,
                   proceeded, committed, aux_calls, oracleVars>>

description == faostat_catalog[pos]

\* main, line 278: the allow-list test of one catalog entry (and a faulty
\* variant that forgets to lower-case the code).
IsIncludedLiteral(d) == d.DatasetCode \in INCLUDED_DATASETS_CODES

IsIncluded(d) == Lower(d.DatasetCode) \in INCLUDED_DATASETS_CODES

\* An entry that is not enabled: the loop moves on.
LoopSkip ==
    /\ pc = "loop"
    /\ pos <= Len(faostat_catalog)
    /\ ~IsIncluded(description)
    /\ pos' = pos + 1
    /\ UNCHANGED <<worldVars, pipeline, pc, VERSION, faostat_catalog, header,
                   any_dataset_was_updated, scratch, scratch_content,
                   wb_metadata, error, probed, checked, proceeded, committed,
                   aux_calls, oracleVars>>

\* An enabled entry: FAODataset(description) requests the header of the file.
\* The answer carries the Last-modified day, or no usable Last-modified; the
\* request itself may fail.
LoopProbe ==
    /\ pc = "loop"
    /\ pos <= Len(faostat_catalog)
    /\ IsIncluded(description)
    /\ probed' = probed \cup {pos}
    /\ \/ /\ header' = <<"date", lastModified[source_data_url(description)]>>
          /\ pc' = "oracle"
          /\ UNCHANGED <<error, scratch, scratch_content>>
       \/ /\ header' = <<"unusable", 0>>
          /\ pc' = "oracle"
          /\ UNCHANGED <<error, scratch, scratch_content>>
       \/ /\ header' = NoHeader
          /\ Raise("ConnectionError")
    /\ UNCHANGED <<worldVars, pipeline, VERSION, faostat_catalog, pos,
                   any_dataset_was_updated, wb_metadata, checked, proceeded,
                   committed, aux_calls, oracleVars>>

\* main, lines 281-288: what follows the answer of the freshness check (and
\* a faulty variant that ignores the answer).
BranchAlwaysDownload(answer) == "download"

Branch(answer) == IF answer = "true" THEN "loop" ELSE "download"

\* modification_date is read (it raises on an unusable header), then the
\* freshness check is called: up to date -> continue; else to_walden opens
\* its scratch file.
OracleStep ==
    /\ pc = "oracle"
    /\ IF header[1] # "date"
       THEN /\ Raise("KeyError")
            /\ UNCHANGED <<pos, checked, proceeded>>
       ELSE LET answer == is_dataset_already_up_to_date(
                              iter_docs(index, NAMESPACE),
                              source_data_url(description), header[2])
            IN /\ checked' = checked \cup {pos}
               /\ IF answer = "raise"
                  THEN /\ Raise("ValueError")
                       /\ UNCHANGED <<pos, proceeded>>
                  ELSE /\ pc' = Branch(answer)
                       /\ pos' = IF pc' = "loop" THEN pos + 1 ELSE pos
                       /\ proceeded' = IF answer = "false"
                                       THEN proceeded \cup {pos}
                                       ELSE proceeded
                       /\ scratch' = (pc' = "download")
                       /\ UNCHANGED <<error, scratch_content>>
    /\ UNCHANGED <<worldVars, pipeline, VERSION, faostat_catalog, header,
                   any_dataset_was_updated, wb_metadata, probed, committed,
                   aux_calls, oracleVars>>

\* to_walden, line 175: files.download into the scratch file.
Download ==
    /\ pc = "download"
    /\ \/ /\ scratch_content' = FilePayload(source_data_url(description))
          /\ pc' = "add"
          /\ UNCHANGED <<error, scratch>>
       \/ Raise("TransferError:download")
    /\ UNCHANGED <<worldVars, pipeline, VERSION, faostat_catalog, pos, header,
                   any_dataset_was_updated, wb_metadata, probed, checked,
                   proceeded, committed, aux_calls, oracleVars>>

\* to_walden, line 178, and main, line 289: add_to_catalog; on success the
\* with block ends, the flag is set and the loop moves on.
AddDataset ==
    /\ pc = "add"
    /\ \E uploadOk \in BOOLEAN :
         LET rec == metadata(description, VERSION)
             res == add_to_catalog(index, storage, rec, scratch_content, uploadOk)
         IN /\ index' = res.index
            /\ storage' = res.storage
            /\ IF res.error = ""
               THEN /\ any_dataset_was_updated' = TRUE
                    /\ committed' = committed \cup {<<"dataset", pos>>}
                    /\ pos' = pos + 1
                    /\ pc' = "loop"
                    /\ scratch' = FALSE
                    /\ scratch_content' = NoPayload
                    /\ UNCHANGED error
               ELSE /\ Raise(res.error)
                    /\ UNCHANGED <<any_dataset_was_updated, committed, pos>>
    /\ UNCHANGED <<today, lastModified, runs, pipeline, VERSION,
                   faostat_catalog, header, wb_metadata, probed, checked,
                   proceeded, aux_calls, oracleVars>>

\* main, lines 291-300: after the loop, the auxiliary refresh if the flag is
\* set (FAOAdditionalMetadata.to_walden opens its scratch file), else a log
\* line and the end of the script.
LoopEndInsideLoop ==
    /\ pc = "loop"
    /\ pos > 1
    /\ pc' = IF any_dataset_was_updated THEN "aux_fetch" ELSE "done"
    /\ scratch' = any_dataset_was_updated
    /\ UNCHANGED <<worldVars, pipeline, VERSION, faostat_catalog, pos, header,
                   any_dataset_was_updated, scratch_content, wb_metadata,
                   error, probed, checked, proceeded, committed, aux_calls,
                   oracleVars>>

LoopEnd ==
    /\ pc = "loop"
    /\ pos > Len(faostat_catalog)
    /\ pc' = IF any_dataset_was_updated THEN "aux_fetch" ELSE "done"
    /\ scratch' = any_dataset_was_updated
    /\ UNCHANGED <<worldVars, pipeline, VERSION, faostat_catalog, pos, header,
                   any_dataset_was_updated, scratch_content, wb_metadata,
                   error, probed, checked, proceeded, committed, aux_calls,
                   oracleVars>>

\* The documents _fetch_additional_metadata can build: per enabled code the
\* categories whose request was answered ok.
AuxDocuments ==
    { {<<domain, ok[domain]>> : domain \in INCLUDED_DATASETS_CODES} :
        ok \in [INCLUDED_DATASETS_CODES -> SUBSET CATEGORIES] }

\* _fetch_additional_metadata: one request per (domain, category); a
\* response that is not ok is left out; the result is written to the
\* scratch file. A request that raises (at the n-th pair) ends the run.
AuxFetch ==
    /\ pc = "aux_fetch"
    /\ \/ /\ \E doc \in AuxDocuments : scratch_content' = JsonPayload(doc)
          /\ aux_calls' = Cardinality(INCLUDED_DATASETS_CODES) * Cardinality(CATEGORIES)
          /\ pc' = "aux_add"
          /\ UNCHANGED <<error, scratch>>
       \/ /\ \E n \in 1..(Cardinality(INCLUDED_DATASETS_CODES) * Cardinality(CATEGORIES)) :
                aux_calls' = n
          /\ Raise("ConnectionError")
    /\ UNCHANGED <<worldVars, pipeline, VERSION, faostat_catalog, pos, header,
                   any_dataset_was_updated, wb_metadata, probed, checked,
                   proceeded, committed, oracleVars>>

\* FAOAdditionalMetadata.to_walden, line 268: add_to_catalog of the document.
AuxAdd ==
    /\ pc = "aux_add"
    /\ \E uploadOk \in BOOLEAN :
         LET res == add_to_catalog(index, storage, create_metadata(VERSION),
                                   scratch_content, uploadOk)
         IN /\ index' = res.index
            /\ storage' = res.storage
            /\ IF res.error = ""
               THEN /\ committed' = committed \cup {<<"aux", 0>>}
                    /\ pc' = "done"
                    /\ scratch' = FALSE
                    /\ scratch_content' = NoPayload
                    /\ UNCHANGED error
               ELSE /\ Raise(res.error)
                    /\ UNCHANGED committed
    /\ UNCHANGED <<today, lastModified, runs,
                   pipeline, VERSION, faostat_catalog, pos, header,
                   any_dataset_was_updated, wb_metadata, probed, checked,
                   proceeded, aux_calls, oracleVars>>

\* ------------------------------------------------- wb_income_groups.main
\* create_metadata_dict: the Notes sheet is read (the request may fail); the
\* description carries the expected sentence or not.
StartWb ==
    /\ pc = "idle"
    /\ runs < MaxRuns
    /\ runs' = runs + 1
    /\ pipeline' = "wb"
    /\ \/ /\ \E sentence \in BOOLEAN :
               wb_metadata' = [rec |-> create_metadata_dict(today),
                               sentence |-> sentence]
          /\ pc' = "wb_check"
          /\ UNCHANGED <<error, scratch, scratch_content>>
       \/ /\ Raise("ConnectionError")
          /\ UNCHANGED wb_metadata
    /\ UNCHANGED <<today, lastModified, index, storage, VERSION, faostat_catalog, pos, header,
                   any_dataset_was_updated, probed, checked, proceeded,
                   committed, aux_calls, oracleVars>>

\* check_date, then the with block opens the scratch file.
\* check_date finds the classification-period sentence in the description
\* or raises ValueError; TRUE stands for "returns".
check_date_always_ok(md) == TRUE

check_date(md) == md.sentence

WbCheck ==
    /\ pc = "wb_check"
    /\ IF check_date(wb_metadata)
       THEN /\ pc' = "wb_download"
            /\ scratch' = TRUE
            /\ UNCHANGED <<error, scratch_content>>
       ELSE Raise("ValueError")
    /\ UNCHANGED <<worldVars, pipeline, VERSION, faostat_catalog, pos, header,
                   any_dataset_was_updated, wb_metadata, probed, checked,
                   proceeded, committed, aux_calls, oracleVars>>

\* main, line 60: files.download.
WbDownload ==
    /\ pc = "wb_download"
    /\ \/ /\ scratch_content' = FilePayload(SOURCE_DATA_URL)
          /\ pc' = "wb_add"
          /\ UNCHANGED <<error, scratch>>
       \/ Raise("TransferError:download")
    /\ UNCHANGED <<worldVars, pipeline, VERSION, faostat_catalog, pos, header,
                   any_dataset_was_updated, wb_metadata, probed, checked,
                   proceeded, committed, aux_calls, oracleVars>>

\* main, line 62: add_to_catalog.
WbAdd ==
    /\ pc = "wb_add"
    /\ \E uploadOk \in BOOLEAN :
         LET res == add_to_catalog(index, storage, wb_metadata.rec,
                                   scratch_content, uploadOk)
         IN /\ index' = res.index
            /\ storage' = res.storage
            /\ IF res.error = ""
               THEN /\ committed' = committed \cup {<<"wb", 0>>}
                    /\ pc' = "done"
                    /\ scratch' = FALSE
                    /\ scratch_content' = NoPayload
                    /\ UNCHANGED error
               ELSE /\ Raise(res.error)
                    /\ UNCHANGED committed
    /\ UNCHANGED <<today, lastModified, runs,
                   pipeline, VERSION, faostat_catalog, pos, header,
                   any_dataset_was_updated, wb_metadata, probed, checked,
                   proceeded, aux_calls, oracleVars>>

\* ------------------------------------------------------- end of a script
\* The exit status of a script that stands at pc: 0 after main returned,
\* non-zero after an uncaught exception.
exit_status_ignoring_errors == IF pc \in {"done", "crashed"} THEN 0 ELSE 1

exit_status == IF pc = "done" THEN 0 ELSE 1

\* The process ends. Nothing of the run but the index and storage stays.
Exit ==
    /\ pc \in {"done", "crashed"}
    /\ pipeline' = "none"
    /\ pc' = "idle"
    /\ VERSION' = NoVersion
    /\ faostat_catalog' = <<>>
    /\ pos' = 1
    /\ header' = NoHeader
    /\ any_dataset_was_updated' = FALSE
    /\ scratch' = FALSE
    /\ scratch_content' = NoPayload
    /\ wb_metadata' = NoWbMetadata
    /\ error' = ""
    /\ probed' = {}
    /\ checked' = {}
    /\ proceeded' = {}
    /\ committed' = {}
    /\ aux_calls' = 0
    /\ UNCHANGED <<today, lastModified, index, storage, runs,
                   oracleVars>>

Next ==
    \/ NextDay
    \/ \E url \in Urls : UpstreamUpdate(url)
    \/ StartFaostat
    \/ LoopSkip
    \/ LoopProbe
    \/ OracleStep
    \/ Download
    \/ AddDataset
    \/ LoopEnd
    \/ AuxFetch
    \/ AuxAdd
    \/ StartWb
    \/ WbCheck
    \/ WbDownload
    \/ WbAdd
    \/ Exit

Spec == Init /\ [][Next]_vars

\* ------------------------------------------ the freshness check on its own
\* The records a namespace of the index may hold: any source URL (or none)
\* and any date_accessed text, well-formed or not.
OracleRecords ==
    { [ namespace |-> NAMESPACE,
        short_name |-> <<NAMESPACE, "_", "x">>,
        date_accessed |-> da,
        version |-> NoVersion,
        source_data_url |-> u ] :
      u \in Urls \cup {NoUrl},
      da \in {StrDate(d) : d \in 0..MaxDay} \cup {<<"text", 0>>} }

InitOracle ==
    /\ today = 1
    /\ lastModified = [u \in Urls |-> 0]
    /\ index = {}
    /\ storage = {}
    /\ runs = 0
    /\ RunInit
    /\ o_index \in SeqsUpTo(OracleRecords, MaxIndexLen)
    /\ o_url \in Urls
    /\ o_mod \in 0..MaxDay
    /\ o_result = "none"
    /\ o_pc = "ready"

\* One call of is_dataset_already_up_to_date on the records o_index.
OracleCall ==
    /\ o_pc = "ready"
    /\ o_result' = is_dataset_already_up_to_date(o_index, o_url, o_mod)
    /\ o_pc' = "called"
    /\ UNCHANGED <<o_index, o_url, o_mod, worldVars, runVars>>

NextOracle == OracleCall

SpecOracle == InitOracle /\ [][NextOracle]_vars

\* ================================================================ claims
RunEnded == pc \in {"done", "crashed"}

AddPcs == {"add", "aux_add", "wb_add"}

\* The catalog positions whose dataset this run wrote to the index.
CommittedPositions == {c[2] : c \in {x \in committed : x[1] = "dataset"}}

\* The record the add_to_catalog call at pc is given.
RecordToCommit ==
    CASE pc = "add" -> metadata(description, VERSION)
      [] pc = "aux_add" -> create_metadata(VERSION)
      [] pc = "wb_add" -> wb_metadata.rec

\* Some record of docs has the URL and a date_accessed later than mod.
HasLaterRecord(docs, url, mod) ==
    \E k \in DOMAIN docs :
        /\ docs[k].source_data_url = url
        /\ IsIsoDate(docs[k].date_accessed)
        /\ Strptime(docs[k].date_accessed) > mod

WellFormed(docs) == SelectSeq(docs, LAMBDA r : IsIsoDate(r.date_accessed))

\* C1: for every content of the namespace's index and every candidate
\* (URL, modification date), the freshness check returns true if and only if
\* some record has that URL and a date_accessed strictly later than the
\* modification date, and returns false otherwise (equal dates, no matching
\* record, empty index).
C1_TrueIffLaterRecord ==
    o_pc = "called" =>
        /\ (o_result = "true") <=> HasLaterRecord(o_index, o_url, o_mod)
        /\ ~HasLaterRecord(o_index, o_url, o_mod) => o_result = "false"

\* On an index whose records all carry a well-formed date_accessed the
\* freshness check does return true exactly when a later record exists.
OracleOnParseableIndex ==
    (o_pc = "called" /\ WellFormed(o_index) = o_index) =>
        /\ (o_result = "true") <=> HasLaterRecord(o_index, o_url, o_mod)
        /\ ~HasLaterRecord(o_index, o_url, o_mod) => o_result = "false"

\* C2 (as stated): everything a run writes to the index is a dataset for
\* which the freshness check answered "not up to date" earlier in that run,
\* in every ingestion pipeline.
C2_EveryCommitAfterProceed ==
    \A c \in committed : c[1] = "dataset" /\ c[2] \in proceeded

\* C2 (amended): in a FAOSTAT run a primary dataset is downloaded and
\* committed only after the freshness check answered "not up to date" for it
\* in the same run.
C2_DatasetCommitAfterProceed ==
    /\ \A c \in committed : c[1] = "dataset" => c[2] \in proceeded
    /\ pc \in {"download", "add"} => pos \in proceeded

C2_Witness ==
    /\ pc = "loop"
    /\ \E p \in CommittedPositions : p \in proceeded

\* C3 (as stated): the datasets for which a run requests a header, asks
\* the freshness check or commits are exactly the catalog entries whose
\* dataset code is in the allow-list.
C3_TouchedIffCodeInAllowList ==
    LET touched == probed \cup checked \cup CommittedPositions
        listed == {p \in DOMAIN faostat_catalog :
                     faostat_catalog[p].DatasetCode \in INCLUDED_DATASETS_CODES}
    IN /\ touched \subseteq listed
       /\ (pipeline = "faostat" /\ pc \in {"aux_fetch", "aux_add", "done"})
            => touched = listed

\* C3 (amended): the datasets for which a run requests a header are exactly
\* the catalog entries reached by the loop whose lower-cased code is in the
\* allow-list; the freshness check and the commit happen for such entries
\* only.
C3_TouchedIffLowerCodeInAllowList ==
    LET reached == {p \in DOMAIN faostat_catalog :
                      p < pos \/ (p = pos /\ pc # "loop")}
    IN /\ probed = {p \in reached :
                      Lower(faostat_catalog[p].DatasetCode)
                          \in INCLUDED_DATASETS_CODES}
       /\ checked \subseteq probed
       /\ CommittedPositions \subseteq checked

C3_Witness ==
    /\ pipeline = "faostat"
    /\ pc = "done"
    /\ \E p \in DOMAIN faostat_catalog : p \notin probed
    /\ \E p \in CommittedPositions :
         faostat_catalog[p].DatasetCode \notin INCLUDED_DATASETS_CODES

\* C4: in every run the auxiliary refresh is performed if and only if at
\* least one primary dataset was committed during that run.
C4_AuxIffDatasetCommitted ==
    (pipeline = "faostat" /\ RunEnded) =>
        ((aux_calls > 0) <=> (CommittedPositions # {}))

\* C5: a failure while processing one enabled dataset does not abort the
\* run: when the run ends every enabled entry of the listing was processed.
C5_FailureDoesNotAbort ==
    (pipeline = "faostat" /\ RunEnded) =>
        \A p \in DOMAIN faostat_catalog :
            IsIncluded(faostat_catalog[p]) => p \in probed

\* C6: when the payload upload of a commit fails, the index after the
\* failed commit is the index before it.
C6_FailedUploadWritesNoRecord ==
    [][ (pc \in AddPcs /\ error' = "TransferError:upload") => index' = index ]_vars

C6_Witness ==
    /\ pc = "crashed"
    /\ error = "TransferError:upload"
    /\ index # {}

\* C7: the index is append-only with respect to versions: no step removes or
\* changes a persisted record or payload, and a record or payload that is
\* added has a (namespace, short_name, version) triple not persisted before.
C7_AppendOnly ==
    [][ /\ index \subseteq index'
        /\ storage \subseteq storage'
        /\ \A r \in index' \ index : Triple(r) \notin Triples(index)
        /\ \A p \in storage' \ storage : p[1] \notin {q[1] : q \in storage}
      ]_vars

C7_Witness ==
    /\ runs = 2
    /\ \E r1, r2 \in index :
         /\ r1.namespace = r2.namespace
         /\ r1.short_name = r2.short_name
         /\ r1.version # r2.version

\* C8: a commit of a (namespace, short_name, version) triple that is already
\* in the index is rejected with DuplicateVersionError and leaves the
\* persisted records and payloads as they were.
C8_DuplicateRejected ==
    [][ (pc \in AddPcs /\ Triple(RecordToCommit) \in Triples(index)) =>
            /\ error' = "DuplicateVersionError"
            /\ index' = index
            /\ storage' = storage
      ]_vars

C8_Witness ==
    /\ pc = "crashed"
    /\ error = "DuplicateVersionError"

\* C9: a record with a malformed date_accessed is skipped: the freshness
\* check returns the answer the well-formed records alone determine.
C9_MalformedRecordSkipped ==
    o_pc = "called" =>
        o_result = is_dataset_already_up_to_date(WellFormed(o_index), o_url, o_mod)

\* C10: with no record for the dataset's URL in the index the freshness
\* check answers "not up to date"; the commit that follows writes a record
\* whose date_accessed is the run's version tag V; and whenever a record of
\* the URL with date_accessed V is in the index and the modification date
\* the server reports is earlier than V, the dataset is skipped: no
\* download, no commit.
C10_CommitThenSkip ==
    [][ /\ (pc = "oracle" /\ header[1] = "date"
            /\ \A r \in index : r.source_data_url # source_data_url(description))
           => (pc' = "download" /\ pos \in proceeded')
        /\ (pc = "add" /\ pc' = "loop")
           => \E r \in index' \ index :
                 /\ r.source_data_url = source_data_url(description)
                 /\ r.date_accessed = VERSION
                 /\ VERSION = StrDate(today)
        /\ (pc = "oracle" /\ header[1] = "date"
            /\ \E r \in index :
                 /\ r.namespace = NAMESPACE
                 /\ r.source_data_url = source_data_url(description)
                 /\ header[2] < Strptime(r.date_accessed))
           => /\ pc' = "loop"
              /\ pos' = pos + 1
              /\ ~scratch'
              /\ index' = index
              /\ storage' = storage
              /\ committed' = committed
      ]_vars

C10_Witness ==
    /\ pipeline = "faostat"
    /\ runs = 2
    /\ pc = "done"
    /\ checked # {}
    /\ proceeded = {}
    /\ index # {}


\* C11: every record a run commits (primary dataset, additional metadata,
\* World Bank income groups) carries a version, and its date_accessed equals
\* its version.
C11_VersionOnEveryRecord ==
    \A r \in index : r.version # NoVersion /\ r.date_accessed = r.version

\* The records of the FAOSTAT pipeline do carry the run's version tag as
\* version and as date_accessed.
FaostatRecordsVersioned ==
    \A r \in index :
        r.namespace = NAMESPACE =>
            (r.version # NoVersion /\ r.date_accessed = r.version)

\* C12: the short_name of a committed dataset record is the namespace, an
\* underscore and the lower-cased dataset code of its descriptor, whatever
\* the index, the version tag and the server's header are.
C12_ShortNameFromCode ==
    [][ (pc = "add" /\ pc' = "loop") =>
            \E r \in index' \ index :
                /\ r.source_data_url = description.FileLocation
                /\ Len(r.short_name) = 2 + Len(description.DatasetCode)
                /\ r.short_name[1] = "faostat"
                /\ r.short_name[2] = "_"
                /\ \A k \in DOMAIN description.DatasetCode :
                     r.short_name[2 + k] = LowerChar(description.DatasetCode[k])
      ]_vars

C12_Witness ==
    /\ pc = "loop"
    /\ \E p \in CommittedPositions :
         /\ faostat_catalog[p].DatasetCode = <<"Q", "C">>
         /\ \E r \in index : r.short_name = <<"faostat", "_", "q", "c">>


AuxPairs == Cardinality(INCLUDED_DATASETS_CODES) * Cardinality(CATEGORIES)

\* C13: in the aggregation of the additional metadata a failed fetch for one
\* (code, category) pair only omits that entry: every pair is still
\* requested, the document has an entry for every enabled code, and the
\* aggregation goes on to the commit.
C13_FailedFetchOnlyOmitsEntry ==
    [][ pc = "aux_fetch" =>
            /\ pc' = "aux_add"
            /\ aux_calls' = AuxPairs
            /\ {e[1] : e \in scratch_content'.doc} = INCLUDED_DATASETS_CODES
      ]_vars

\* A response that is not ok is tolerated: when no request raises, every
\* pair was requested and the document has an entry (possibly empty) for
\* every enabled code.
AuxNotOkTolerated ==
    [][ (pc = "aux_fetch" /\ pc' = "aux_add") =>
            /\ aux_calls' = AuxPairs
            /\ {e[1] : e \in scratch_content'.doc} = INCLUDED_DATASETS_CODES
            /\ \A e \in scratch_content'.doc : e[2] \subseteq CATEGORIES
      ]_vars


\* C14: a faostat run that has ended has exit status 0 exactly when nothing
\* raised during it, that is, when no enabled dataset and not the auxiliary
\* refresh failed; a run in which one of them failed ends non-zero.
C14_ExitStatusZeroIffNoFailure ==
    (pipeline = "faostat" /\ RunEnded) =>
        /\ (exit_status = 0) <=> (error = "")
        /\ error # "" => exit_status # 0

\* A run that went through both of its datasets, committed one, and failed
\* on the last one.
C14_Witness ==
    /\ pipeline = "faostat"
    /\ pc = "crashed"
    /\ Len(faostat_catalog) = 2
    /\ probed = {1, 2}
    /\ CommittedPositions = {1}
    /\ error = "TransferError:upload"
    /\ exit_status = 1

\* C15: within one run no two catalog positions with the same short_name are
\* both written; with one version per run that is at most one write per
\* (namespace, version, short_name).
C15_OneWritePerTriplePerRun ==
    \A p, q \in CommittedPositions :
        p # q => short_name(faostat_catalog[p]) # short_name(faostat_catalog[q])

\* The second dataset of the catalog has the short_name of the first, which
\* this run wrote, and its commit was refused.
C15_Witness ==
    /\ pipeline = "faostat"
    /\ pc = "crashed"
    /\ error = "DuplicateVersionError"
    /\ pos = 2
    /\ CommittedPositions = {1}
    /\ short_name(faostat_catalog[1]) = short_name(faostat_catalog[2])
    /\ faostat_catalog[1].FileLocation # faostat_catalog[2].FileLocation


\* C16: datasets are handled one at a time in listing order.  A probe starts
\* only from the top of the loop, with no scratch file open, for the position
\* the loop stands at, which lies after every position probed before; every
\* earlier position has then finished its freshness check and, if it was
\* stale, its commit.  The auxiliary requests start at most once per run and
\* only after the loop has passed the last entry of the listing.
C16_OneAtATimeInListingOrder ==
    [][ /\ (probed' # probed /\ pc' # "idle") =>
              /\ pc = "loop"
              /\ ~scratch
              /\ probed' = probed \cup {pos}
              /\ \A p \in probed :
                    /\ p < pos
                    /\ p \in checked
                    /\ p \in proceeded => p \in CommittedPositions
        /\ (aux_calls' # aux_calls /\ pc' # "idle") =>
              /\ pc = "aux_fetch"
              /\ aux_calls = 0
              /\ pos > Len(faostat_catalog)
        /\ (pc' = "aux_fetch" /\ pc # "aux_fetch") =>
              /\ pc = "loop"
              /\ pos > Len(faostat_catalog)
              /\ aux_calls = 0
      ]_vars

\* Both datasets of a two-entry listing were probed, the first was committed,
\* and the auxiliary refresh has made its requests.
C16_Witness ==
    /\ pc = "aux_add"
    /\ Len(faostat_catalog) = 2
    /\ probed = {1, 2}
    /\ CommittedPositions = {1}
    /\ aux_calls = AuxPairs

ScratchPcs == {"download", "add", "aux_fetch", "aux_add", "wb_download", "wb_add"}

\* C17: a scratch file exists exactly while a to_walden call (or the with
\* block of wb main) is under way; once the call has returned or failed the
\* file and its content are gone.
C17_ScratchOnlyDuringCommit ==
    /\ scratch <=> pc \in ScratchPcs
    /\ scratch_content # NoPayload => scratch

\* A download failed inside the with block and the scratch file is gone.
C17_Witness ==
    /\ pc = "crashed"
    /\ error = "TransferError:download"
    /\ ~scratch
    /\ scratch_content = NoPayload

\* C18: the freshness check changes neither the index nor the storage, and
\* when it answers true the run goes straight to the next catalog entry: no
\* scratch file, no download, no commit, flag unchanged.
C18_OracleReadOnly ==
    [][ pc = "oracle" =>
            /\ index' = index
            /\ storage' = storage
            /\ any_dataset_was_updated' = any_dataset_was_updated
            /\ committed' = committed
            /\ (/\ header[1] = "date"
                /\ is_dataset_already_up_to_date(
                       iter_docs(index, NAMESPACE),
                       source_data_url(description), header[2]) = "true") =>
                  /\ pc' = "loop"
                  /\ pos' = pos + 1
                  /\ ~scratch'
                  /\ scratch_content' = NoPayload
                  /\ proceeded' = proceeded
      ]_vars

\* A later dataset was reported up to date while the flag was already set
\* by an earlier commit of the same run.
C18_Witness ==
    /\ pc = "loop"
    /\ any_dataset_was_updated
    /\ CommittedPositions = {1}
    /\ checked = {1, 2}
    /\ proceeded = {1}

\* C20: when the description lacks the classification-period sentence,
\* check_date raises ValueError; no scratch file is opened, nothing is
\* downloaded or stored and the index is unchanged.
C20_MissingSentenceStopsBeforeDownload ==
    [][ (pc = "wb_check" /\ ~wb_metadata.sentence) =>
            /\ pc' = "crashed"
            /\ error' = "ValueError"
            /\ ~scratch'
            /\ scratch_content' = NoPayload
            /\ index' = index
            /\ storage' = storage
            /\ committed' = committed
      ]_vars

\* The wb run has ended with ValueError next to an index that earlier runs
\* had filled.
C20_Witness ==
    /\ pipeline = "wb"
    /\ pc = "crashed"
    /\ error = "ValueError"
    /\ ~wb_metadata.sentence
    /\ committed = {}
    /\ index # {}


RecordSet(docs) == {docs[k] : k \in DOMAIN docs}

\* C19: the answer of the freshness check is the same for any two indexes
\* with the same set of well-formed records, whatever their order and
\* whatever else they hold; a true answer does not become false when a
\* record is added, nor when the modification date is made earlier.
C19_WellFormedSetOnlyAndMonotone ==
    o_pc = "called" =>
        /\ \A docs2 \in SeqsUpTo(OracleRecords, MaxIndexLen) :
              RecordSet(WellFormed(docs2)) = RecordSet(WellFormed(o_index)) =>
                  is_dataset_already_up_to_date(docs2, o_url, o_mod) = o_result
        /\ o_result = "true" =>
              /\ \A r \in OracleRecords :
                    is_dataset_already_up_to_date(Append(o_index, r), o_url, o_mod)
                        # "false"
              /\ \A m \in 0..o_mod :
                    is_dataset_already_up_to_date(o_index, o_url, m) # "false"

\* Among indexes whose records all carry a well-formed date_accessed the
\* answer is a function of the set of records, and it is monotone in both
\* senses.
OracleOrderFreeOnParseableIndex ==
    (o_pc = "called" /\ WellFormed(o_index) = o_index) =>
        /\ \A docs2 \in SeqsUpTo(OracleRecords, MaxIndexLen) :
              (WellFormed(docs2) = docs2 /\ RecordSet(docs2) = RecordSet(o_index)) =>
                  is_dataset_already_up_to_date(docs2, o_url, o_mod) = o_result
        /\ o_result = "true" =>
              /\ \A r \in OracleRecords :
                    IsIsoDate(r.date_accessed) =>
                        is_dataset_already_up_to_date(Append(o_index, r), o_url, o_mod)
                            = "true"
              /\ \A m \in 0..o_mod :
                    is_dataset_already_up_to_date(o_index, o_url, m) = "true"

====
